---- MODULE Spec2Model ----
(***************************************************************************)
(* Model of the Transcriber application (Promepy/STT).                     *)
(*                                                                         *)
(*  - the live session: TranscriberApp (controlling thread) and the        *)
(*    AudioWorker capture loops (one QThread per session) sharing one      *)
(*    AudioEngine (src/main.py, src/audio_engine.py);                      *)
(*  - the batch run: FileTranscriptionWorker (src/file_transcriber.py).    *)
(*                                                                         *)
(* Every statement of AudioWorker.run is one step of the worker thread, so *)
(* that the controlling thread's pause()/resume()/stop() calls, which are  *)
(* plain unsynchronised assignments, interleave with it at every point.    *)
(***************************************************************************)
EXTENDS Integers, Sequences, FiniteSets, TLC

\* ---------------------------------------------------------------- bounds
\* Sessions (AudioWorker objects) created in one behaviour.
MaxSessions == 2
\* Enabled sources handed to a worker (start_session never passes an empty
\* list).
MaxSources == 1
\* Finalized utterances the recognizer reports inside the capture loops of one
\* behaviour; after that it reports partials or silence.
MaxTexts == 1
\* Saturation point of the history counters.
CountCap == 2
\* Chunks of the longest converted file in a batch run.
MaxChunks == 3

\* ------------------------------------------------------- program constants
\* file_transcriber._CHUNK_FRAMES
CHUNK_FRAMES == 4000

Workers == 1..MaxSessions
\* app._worker / app._thread are None
NoWorker == 0

VARIABLES
    \* ---- TranscriberApp / TranscriberUI (controlling thread)
    uiState,        \* ui._state / tray._state: "IDLE" | "RUNNING" | "PAUSED"
    curWorker,      \* app._worker and app._thread (set and cleared together)
    nWorkers,       \* AudioWorker objects created so far
    mainPc,         \* "ready" | "stop_wait" (inside QThread.wait) | "quit"
    stopFrom,       \* caller of the stop_session in progress: [by, w], by in
                    \* "user" | "error" | "shutdown", w the worker whose
                    \* error signal made _on_error call it (else NoWorker)
    engineLoaded,   \* app._transcription_engine is not None
    fileOpen,       \* app._file is an open file
    timerOn,        \* autosave._timer is active
    buffer,         \* autosave._buffer: the texts in it
    \* ---- AudioEngine (shared)
    streams,        \* _streams: sequence of [owner, src]
    pa,             \* _pa is not None
    \* ---- AudioWorker / QThread, per session
    wpc,            \* position of the worker thread
    running,        \* _running
    paused,         \* _paused
    quitReq,        \* QThread.quit() was called (the event loop exits at once)
    textsLeft,      \* finalized utterances still to come inside the loop
    recFed,         \* workers whose chunks the engine's recognizer received
    \* ---- signals in flight to the controlling thread (queued connections)
    events,         \* sequence of [w, kind]
    \* ---- history (observers of the claims; never read by the program)
    hist,
    \* ---- FileTranscriptionWorker (batch run)
    fw,
    \* ---- AudioEngine driven call by call (stream mixer)
    mx,
    \* ---- TranscriptionEngine driven call by call
    te

liveVars == <<uiState, curWorker, nWorkers, mainPc, stopFrom, engineLoaded,
              fileOpen, timerOn, buffer, streams, pa, wpc, running, paused,
              quitReq, textsLeft, recFed, events, hist>>
vars == <<liveVars, fw, mx, te>>

\* What each part of the program leaves alone.
notLive == <<fw, mx, te>>
notBatch == <<liveVars, mx, te>>
notMixer == <<liveVars, fw, te>>
notEngine == <<liveVars, fw, mx>>

ctlVars == <<uiState, curWorker, nWorkers, mainPc, stopFrom, engineLoaded,
             fileOpen, timerOn, buffer>>

\* The recognizer of the shared TranscriptionEngine.
recVars == <<textsLeft, recFed>>

ctlRest == <<uiState, curWorker, nWorkers, stopFrom, engineLoaded, fileOpen,
             timerOn, buffer>>

Min(a, b) == IF a < b THEN a ELSE b
Bump(n) == Min(n + 1, CountCap)

\* What one cycle of the capture loop did, from its read_and_mix call on.
CycInit ==
    [ data    |-> "unset",    \* read_and_mix: "reading" | "empty" | "frame"
      chunks  |-> 0,          \* process_chunk calls
      final   |-> FALSE,      \* process_chunk returned a final text
      partial |-> FALSE,      \* process_chunk returned a partial text
      emitted |-> {} ]        \* signals emitted: "text", "partial"

\* History record of one worker.
HistInit ==
    [ errors     |-> 0,       \* error_occurred emissions
      openFailed |-> FALSE,   \* open_streams raised
      acted      |-> FALSE,   \* the worker set _running, called read_and_mix,
                              \* process_chunk or final_result, or emitted text
      finals     |-> 0,       \* final_result calls
      flushRes   |-> "unset", \* what final_result returned: "text" | "none"
      flushTexts |-> 0,       \* text_ready emissions of the flush
      afterFlush |-> FALSE,   \* a process_chunk call or a loop event after the flush
      closes     |-> 0,       \* close_streams calls by the worker after its loop
      cyc        |-> CycInit, \* the cycle in progress, or the last one
      bleed      |-> FALSE,   \* a chunk went to a recognizer that had chunks
                              \* of an earlier worker
      stopReq    |-> FALSE,   \* stop() was called on this worker
      pauseOn    |-> FALSE,   \* pause() was called, no resume() or stop() since
      resumeWait |-> FALSE,   \* resume() was called; no read_and_mix call,
                              \* pause() or stop() since
      stopPaused |-> FALSE,   \* stop() was called in the PAUSED state
      closed     |-> FALSE,   \* stop_session flushed and closed its session
      late       |-> FALSE,   \* a text_ready of this worker was not yet
                              \* delivered (or not yet emitted) at that time
      errEnd     |-> "pending" ] \* ui state when _on_error for this worker ended

\* ------------------------------------------------------------------ Init
\* The state after TranscriberApp.__init__ (src/main.py:110-145): the audio
\* subsystem initialised, no engine, no session.
LiveInit ==
    /\ uiState = "IDLE"
    /\ curWorker = NoWorker
    /\ nWorkers = 0
    /\ mainPc = "ready"
    /\ stopFrom = [by |-> "user", w |-> NoWorker]
    /\ engineLoaded = FALSE
    /\ fileOpen = FALSE
    /\ timerOn = FALSE
    /\ buffer = 0
    /\ streams = << >>
    /\ pa = TRUE
    /\ wpc = [w \in Workers |-> "none"]
    /\ running = [w \in Workers |-> FALSE]
    /\ paused = [w \in Workers |-> FALSE]
    /\ quitReq = [w \in Workers |-> FALSE]
    /\ textsLeft = MaxTexts
    /\ recFed = {}
    /\ events = << >>
    /\ hist = [w \in Workers |-> HistInit]

\* ---------------------------------------------- controlling thread: session
\* The thread object of worker w is still running (QThread.isRunning()).
ThreadRunning(w) == wpc[w] \notin {"none", "finished"}

\* TranscriberApp.start_session. The Start button and the tray's Start entry
\* are enabled only in the IDLE state (ui.py:409, tray_icon.py:119).
StartSession ==
    /\ mainPc = "ready"
    /\ uiState = "IDLE"
    /\ \E outcome \in {"no_model", "file_error", "no_device", "ok"} :
          CASE outcome = "no_model" ->
                \* TranscriptionEngine() raised FileNotFoundError
                /\ ~engineLoaded
                /\ UNCHANGED <<uiState, curWorker, nWorkers, mainPc, stopFrom,
                               engineLoaded, fileOpen, timerOn, buffer, wpc,
                               running, paused, quitReq, textsLeft, recFed>>
            [] outcome = "file_error" ->
                \* open(filepath) raised OSError
                /\ engineLoaded' = TRUE
                /\ recFed' = {}
                /\ UNCHANGED <<uiState, curWorker, nWorkers, mainPc, stopFrom,
                               fileOpen, timerOn, buffer, wpc, running, paused,
                               quitReq, textsLeft>>
            [] outcome = "no_device" ->
                \* no enabled source and no input device
                /\ engineLoaded' = TRUE
                /\ recFed' = {}
                /\ fileOpen' = TRUE
                /\ timerOn' = TRUE
                /\ buffer' = 0
                /\ UNCHANGED <<uiState, curWorker, nWorkers, mainPc, stopFrom,
                               wpc, running, paused, quitReq, textsLeft>>
            [] outcome = "ok" ->
                /\ nWorkers < MaxSessions
                /\ LET w == nWorkers + 1 IN
                    /\ engineLoaded' = TRUE
                    /\ recFed' = {}
                    /\ fileOpen' = TRUE
                    /\ timerOn' = TRUE
                    /\ buffer' = 0
                    /\ nWorkers' = w
                    /\ curWorker' = w
                    /\ wpc' = [wpc EXCEPT ![w] = "start"]
                    /\ uiState' = "RUNNING"
                    /\ UNCHANGED <<mainPc, stopFrom, running, paused,
                                   quitReq, textsLeft>>
    /\ UNCHANGED <<streams, pa, events, hist, notLive>>

\* Mutant of PauseSession: the Pause button and the tray entry are enabled in
\* every state.
PauseSession_AlwaysEnabled ==
    /\ mainPc = "ready"
    /\ uiState # "PAUSED"
    /\ IF curWorker # NoWorker
         THEN /\ paused' = [paused EXCEPT ![curWorker] = TRUE]
              /\ hist' = [hist EXCEPT ![curWorker].pauseOn = TRUE,
                                      ![curWorker].resumeWait = FALSE]
         ELSE UNCHANGED <<paused, hist>>
    /\ uiState' = "PAUSED"
    /\ UNCHANGED <<curWorker, nWorkers, mainPc, stopFrom, engineLoaded,
                   fileOpen, timerOn, buffer, streams, pa, wpc, running,
                   quitReq, recVars, events, notLive>>

\* TranscriberApp.pause_session. The Pause button emits pause_requested
\* unless the state is PAUSED and is enabled in RUNNING and PAUSED.
PauseSession ==
    /\ mainPc = "ready"
    /\ uiState = "RUNNING"
    /\ IF curWorker # NoWorker
         THEN /\ paused' = [paused EXCEPT ![curWorker] = TRUE]
              /\ hist' = [hist EXCEPT ![curWorker].pauseOn = TRUE,
                                      ![curWorker].resumeWait = FALSE]
         ELSE UNCHANGED <<paused, hist>>
    /\ uiState' = "PAUSED"
    /\ UNCHANGED <<curWorker, nWorkers, mainPc, stopFrom, engineLoaded,
                   fileOpen, timerOn, buffer, streams, pa, wpc, running,
                   quitReq, recVars, events, notLive>>

\* TranscriberApp.resume_session.
ResumeSession ==
    /\ mainPc = "ready"
    /\ uiState = "PAUSED"
    /\ IF curWorker # NoWorker
         THEN /\ paused' = [paused EXCEPT ![curWorker] = FALSE]
              /\ hist' = [hist EXCEPT ![curWorker].pauseOn = FALSE,
                                      ![curWorker].resumeWait = TRUE]
         ELSE UNCHANGED <<paused, hist>>
    /\ uiState' = "RUNNING"
    /\ UNCHANGED <<curWorker, nWorkers, mainPc, stopFrom, engineLoaded,
                   fileOpen, timerOn, buffer, streams, pa, wpc, running,
                   quitReq, recVars, events, notLive>>

\* stop_session up to its QThread.wait(3000): AudioWorker.stop() on the
\* current worker, QThread.quit(), then the controlling thread blocks.
StopSessionBegin(from) ==
    /\ IF curWorker # NoWorker
         THEN /\ running' = [running EXCEPT ![curWorker] = FALSE]
              /\ quitReq' = [quitReq EXCEPT ![curWorker] =
                                @ \/ ThreadRunning(curWorker)]
              /\ hist' = [hist EXCEPT
                      ![curWorker].stopReq = TRUE,
                      ![curWorker].pauseOn = FALSE,
                      ![curWorker].resumeWait = FALSE,
                      ![curWorker].stopPaused = @ \/ uiState = "PAUSED"]
         ELSE UNCHANGED <<running, quitReq, hist>>
    /\ mainPc' = "stop_wait"
    /\ stopFrom' = from

\* The Stop button / tray entry (enabled in RUNNING and PAUSED).
StopSession ==
    /\ mainPc = "ready"
    /\ uiState \in {"RUNNING", "PAUSED"}
    /\ StopSessionBegin([by |-> "user", w |-> NoWorker])
    /\ UNCHANGED <<uiState, curWorker, nWorkers, engineLoaded, fileOpen,
                   timerOn, buffer, streams, pa, wpc, paused, recVars, events,
                   notLive>>

\* AudioEngine.terminate: close_streams, then drop the PyAudio instance.
Terminate ==
    /\ streams' = << >>
    /\ pa' = FALSE

\* The process ends (sys.exit at the end of main(), or an abort): every thread
\* that has not finished ends with it; worker w, if any, ends as `how`.
ProcessEnds(w, how) ==
    wpc' = [v \in Workers |->
              IF v = w THEN how
              ELSE IF wpc[v] \in {"none", "finished"} THEN wpc[v]
              ELSE "killed"]

\* AutosaveManager.flush, lines 43-51: nothing to do with an empty buffer;
\* else the write succeeds, fails with OSError (logged, the buffer kept), or,
\* on a file already closed, raises ValueError, which nothing catches.
FlushOutcomes ==
    IF buffer = 0 THEN {"nothing"}
    ELSE IF fileOpen THEN {"written", "oserror"}
    ELSE {"closed_file"}

\* The buffer after a flush that returned.
Flushed(res) == IF res = "written" THEN 0 ELSE buffer

\* A text_ready of worker w is queued and not yet delivered.
TextPending(w) ==
    \E i \in DOMAIN events : events[i] = [w |-> w, kind |-> "text"]

\* The rest of stop_session once wait() returned: autosave flush and stop, file
\* closed, worker and thread forgotten, state IDLE; then, inside shutdown,
\* AudioEngine.terminate, after which main() exits.
StopSessionEnd ==
    \E res \in FlushOutcomes :
      IF res = "closed_file"
        THEN \* ValueError leaves stop_session and the slot that called it
             /\ mainPc' = "aborted"
             /\ ProcessEnds(NoWorker, "killed")
             /\ UNCHANGED <<ctlRest, streams, pa, running, paused, quitReq,
                            recVars, events, hist, notLive>>
        ELSE
          /\ buffer' = Flushed(res)
          /\ timerOn' = FALSE
          /\ fileOpen' = FALSE
          /\ curWorker' = NoWorker
          /\ uiState' = "IDLE"
          /\ IF stopFrom.by = "shutdown"
               THEN /\ Terminate
                    /\ mainPc' = "quit"
                    /\ ProcessEnds(NoWorker, "killed")
               ELSE mainPc' = "ready" /\ UNCHANGED <<streams, pa, wpc>>
          /\ hist' = [w \in Workers |->
                [hist[w] EXCEPT
                   !.errEnd = IF stopFrom.by = "error" /\ stopFrom.w = w
                                THEN uiState' ELSE @,
                   !.closed = @ \/ w = curWorker,
                   !.late = @ \/ (w = curWorker /\ TextPending(w))]]
          /\ UNCHANGED <<nWorkers, stopFrom, engineLoaded, running, paused,
                         quitReq, recVars, events, notLive>>

\* wait(3000) returned because the thread finished (or there was no thread).
StopWaitDone ==
    /\ mainPc = "stop_wait"
    /\ curWorker # NoWorker => ~ThreadRunning(curWorker)
    /\ StopSessionEnd

\* wait(3000) returned because three seconds elapsed with the thread running.
\* Timing: a worker whose _running flag is still False leaves its loop within
\* the cycle in flight (one 0.25 s read, or one 0.1 s sleep), well inside the
\* three seconds, so the wait only times out on a worker whose flag is True
\* again (run's line 67 executed after stop()).
StopWaitTimeout ==
    /\ mainPc = "stop_wait"
    /\ curWorker # NoWorker
    /\ ThreadRunning(curWorker)
    /\ running[curWorker]
    /\ StopSessionEnd

\* TranscriberApp.shutdown (tray Quit, or the end of main()).
Shutdown ==
    /\ mainPc = "ready"
    /\ IF curWorker # NoWorker /\ ThreadRunning(curWorker)
         THEN /\ StopSessionBegin([by |-> "shutdown", w |-> NoWorker])
              /\ UNCHANGED <<streams, pa, wpc>>
         ELSE /\ Terminate
              /\ mainPc' = "quit"
              /\ ProcessEnds(NoWorker, "killed")
              /\ UNCHANGED <<stopFrom, running, quitReq, hist>>
    /\ UNCHANGED <<uiState, curWorker, nWorkers, engineLoaded, fileOpen,
                   timerOn, buffer, paused, recVars, events, notLive>>

\* ------------------------------------------- controlling thread: the slots
\* _on_error: the queued error_occurred signal of worker w is delivered.
OnError ==
    /\ mainPc = "ready"
    /\ events # << >>
    /\ Head(events).kind = "error"
    /\ events' = Tail(events)
    /\ StopSessionBegin([by |-> "error", w |-> Head(events).w])
    /\ UNCHANGED <<uiState, curWorker, nWorkers, engineLoaded, fileOpen,
                   timerOn, buffer, streams, pa, wpc, paused, recVars, notLive>>

\* _on_final_text: a queued text_ready signal is delivered. (_on_partial_text
\* only repaints the window: partial_ready is not kept in `events`.)
OnText ==
    /\ mainPc = "ready"
    /\ events # << >>
    /\ Head(events).kind = "text"
    /\ events' = Tail(events)
    /\ buffer' = buffer + 1
    /\ UNCHANGED <<uiState, curWorker, nWorkers, mainPc, stopFrom,
                   engineLoaded, fileOpen, timerOn, streams, pa, wpc, running,
                   paused, quitReq, recVars, hist, notLive>>

\* AutosaveManager._on_tick: the timer fires and the buffer is flushed (the
\* timer only runs between start and stop, on the session's open file).
AutosaveTick ==
    /\ mainPc = "ready"
    /\ timerOn
    /\ \E res \in FlushOutcomes :
         IF res = "closed_file"
           THEN /\ mainPc' = "aborted"
                /\ ProcessEnds(NoWorker, "killed")
                /\ UNCHANGED buffer
           ELSE /\ buffer' = Flushed(res)
                /\ UNCHANGED <<mainPc, wpc>>
    /\ UNCHANGED <<uiState, curWorker, nWorkers, stopFrom, engineLoaded,
                   fileOpen, timerOn, streams, pa, running, paused, quitReq,
                   recVars, events, hist, notLive>>

\* ------------------------------------------------------ signals of a worker
Emit(w, kind) == Append(events, [w |-> w, kind |-> kind])

\* --------------------------------------------------- AudioEngine operations
\* The handles open_streams leaves in _streams: one per source that opened,
\* in source order (every source start_session passes is enabled).
OpenedHandles(w, n, opened) ==
    SelectSeq([i \in 1..n |-> [owner |-> w, src |-> i]],
              LAMBDA h : h.src \in opened)

\* ------------------------------------------------- AudioWorker.run, by line
\* Mutant of WOpenStreams: the except branch emits the error but does not
\* return, so run goes on to set _running.
WOpenStreams_NoReturn(w) ==
    /\ wpc[w] = "start"
    /\ \E n \in 1..MaxSources : \E opened \in SUBSET (1..n) :
        /\ pa' = TRUE
        /\ streams' = OpenedHandles(w, n, opened)
        /\ IF opened = {}
             THEN /\ events' = Emit(w, "error")
                  /\ hist' = [hist EXCEPT ![w].errors = Bump(@),
                                          ![w].openFailed = TRUE]
             ELSE UNCHANGED <<events, hist>>
        /\ wpc' = [wpc EXCEPT ![w] = "set_running"]
    /\ UNCHANGED <<ctlVars, running, paused, quitReq, recVars, notLive>>

\* run, lines 61-65: open_streams (init, close_streams, one open per source);
\* with no handle open it raises, run emits error_occurred and returns.
WOpenStreams(w) ==
    /\ wpc[w] = "start"
    /\ \E n \in 1..MaxSources : \E opened \in SUBSET (1..n) :
        /\ pa' = TRUE
        /\ streams' = OpenedHandles(w, n, opened)
        /\ IF opened = {}
             THEN /\ events' = Emit(w, "error")
                  /\ hist' = [hist EXCEPT ![w].errors = Bump(@),
                                          ![w].openFailed = TRUE]
                  /\ wpc' = [wpc EXCEPT ![w] = "returned"]
             ELSE /\ wpc' = [wpc EXCEPT ![w] = "set_running"]
                  /\ UNCHANGED <<events, hist>>
    /\ UNCHANGED <<ctlVars, running, paused, quitReq, recVars, notLive>>

\* run, line 67: self._running = True
WSetRunning(w) ==
    /\ wpc[w] = "set_running"
    /\ running' = [running EXCEPT ![w] = TRUE]
    /\ hist' = [hist EXCEPT ![w].acted = TRUE]
    /\ wpc' = [wpc EXCEPT ![w] = "set_paused"]
    /\ UNCHANGED <<ctlVars, streams, pa, paused, quitReq, recVars,
                   events, notLive>>

\* run, line 68: self._paused = False
WSetPaused(w) ==
    /\ wpc[w] = "set_paused"
    /\ paused' = [paused EXCEPT ![w] = FALSE]
    /\ wpc' = [wpc EXCEPT ![w] = "loop"]
    /\ UNCHANGED <<ctlVars, streams, pa, running, quitReq, recVars,
                   events, hist, notLive>>

\* Mutant of WLoopTest: the loop's exit goes straight to close_streams,
\* without the final_result flush.
WLoopTest_SkipFlush(w) ==
    /\ wpc[w] = "loop"
    /\ wpc' = [wpc EXCEPT ![w] = IF running[w] THEN "chk_paused" ELSE "close"]
    /\ UNCHANGED <<ctlVars, streams, pa, running, paused, quitReq, recVars,
                   events, hist, notLive>>

\* run, line 70: while self._running
WLoopTest(w) ==
    /\ wpc[w] = "loop"
    /\ wpc' = [wpc EXCEPT ![w] = IF running[w] THEN "chk_paused" ELSE "flush"]
    /\ UNCHANGED <<ctlVars, streams, pa, running, paused, quitReq, recVars,
                   events, hist, notLive>>

\* run, lines 71-73: if self._paused: msleep(50); continue
WCheckPaused(w) ==
    /\ wpc[w] = "chk_paused"
    /\ wpc' = [wpc EXCEPT ![w] = IF paused[w] THEN "loop" ELSE "read"]
    /\ UNCHANGED <<ctlVars, streams, pa, running, paused, quitReq, recVars,
                   events, hist, notLive>>

\* Mutant of WReadBegin: an empty read is handed to process_chunk.
WReadBegin_NoBackoff(w) ==
    /\ wpc[w] = "read"
    /\ wpc' = [wpc EXCEPT ![w] =
                 IF streams = << >> THEN "process" ELSE "reading"]
    /\ hist' = [hist EXCEPT
            ![w].acted = TRUE,
            ![w].resumeWait = FALSE,
            ![w].cyc = [CycInit EXCEPT !.data =
                          IF streams = << >> THEN "empty" ELSE "reading"]]
    /\ UNCHANGED <<ctlVars, streams, pa, running, paused, quitReq, recVars,
                   events, notLive>>

\* run, line 75, entering read_and_mix: with no handle it returns b"" at once
\* and the loop backs off (lines 76-78); otherwise it starts reading the handles.
WReadBegin(w) ==
    /\ wpc[w] = "read"
    /\ wpc' = [wpc EXCEPT ![w] = IF streams = << >> THEN "loop" ELSE "reading"]
    /\ hist' = [hist EXCEPT
            ![w].acted = TRUE,
            ![w].resumeWait = FALSE,
            ![w].cyc = [CycInit EXCEPT !.data =
                          IF streams = << >> THEN "empty" ELSE "reading"]]
    /\ UNCHANGED <<ctlVars, streams, pa, running, paused, quitReq, recVars,
                   events, notLive>>

\* read_and_mix returns: always a full frame (a failed or inactive handle
\* contributes nothing, the frame is still packed), so line 76 never backs off.
WReadEnd(w) ==
    /\ wpc[w] = "reading"
    /\ wpc' = [wpc EXCEPT ![w] = "process"]
    /\ hist' = [hist EXCEPT ![w].cyc.data = "frame"]
    /\ UNCHANGED <<ctlVars, streams, pa, running, paused, quitReq, recVars,
                   events, notLive>>

\* An exception leaves run through the slot that QThread.started invoked:
\* nothing catches it, PyQt ends the process, every thread with it.
Abort(w) ==
    /\ mainPc' = "aborted"
    /\ ProcessEnds(w, "raised")

\* run, lines 81-84: if final: text_ready; elif partial: partial_ready.
Emitted(final, partial) ==
    IF final THEN {"text"} ELSE IF partial THEN {"partial"} ELSE {}

\* run, lines 80-84: process_chunk, then text_ready or partial_ready.
\* process_chunk returns (final, None), (None, partial) or (None, None).
WProcess(w) ==
    /\ wpc[w] = "process"
    /\ \E res \in {"final", "partial", "none", "raise"} :
        LET out == IF res = "raise" THEN {}
                   ELSE Emitted(res = "final", res = "partial")
        IN
        /\ res = "final" => textsLeft > 0
        /\ textsLeft' = IF res = "final" THEN textsLeft - 1 ELSE textsLeft
        /\ recFed' = recFed \cup {w}
        /\ events' = IF "text" \in out THEN Emit(w, "text") ELSE events
        /\ IF res = "raise"
             THEN Abort(w)
             ELSE wpc' = [wpc EXCEPT ![w] = "loop"] /\ UNCHANGED mainPc
        /\ hist' = [hist EXCEPT
                ![w].acted = TRUE,
                ![w].afterFlush = @ \/ hist[w].finals > 0,
                ![w].bleed = @ \/ \E v \in recFed : v < w,
                ![w].late = @ \/ (hist[w].closed /\ "text" \in out),
                ![w].cyc = [@ EXCEPT !.chunks = Bump(@),
                                     !.final = (res = "final"),
                                     !.partial = (res = "partial"),
                                     !.emitted = out]]
    /\ UNCHANGED <<ctlRest, streams, pa, running, paused, quitReq, notLive>>

\* run, lines 87-89: final_result, emitted as text_ready when not empty.
WFlush(w) ==
    /\ wpc[w] = "flush"
    /\ \E res \in {"text", "none", "raise"} :
        /\ events' = IF res = "text" THEN Emit(w, "text") ELSE events
        /\ IF res = "raise"
             THEN Abort(w)
             ELSE wpc' = [wpc EXCEPT ![w] = "close"] /\ UNCHANGED mainPc
        /\ hist' = [hist EXCEPT
                ![w].acted = TRUE,
                ![w].finals = Bump(@),
                ![w].flushRes = res,
                ![w].flushTexts = IF res = "text" THEN Bump(@) ELSE @,
                ![w].late = @ \/ (hist[w].closed /\ res = "text")]
    /\ UNCHANGED <<ctlRest, streams, pa, running, paused, quitReq, recVars,
                   notLive>>

\* run, line 91: close_streams, then run returns to the thread's event loop.
WClose(w) ==
    /\ wpc[w] = "close"
    /\ streams' = << >>
    /\ wpc' = [wpc EXCEPT ![w] = "returned"]
    /\ hist' = [hist EXCEPT ![w].closes = Bump(@)]
    /\ UNCHANGED <<ctlVars, pa, running, paused, quitReq, recVars,
                   events, notLive>>

\* QThread: after run returned, exec() ends as soon as quit() was called.
WThreadFinish(w) ==
    /\ wpc[w] = "returned"
    /\ quitReq[w]
    /\ wpc' = [wpc EXCEPT ![w] = "finished"]
    /\ UNCHANGED <<ctlVars, streams, pa, running, paused, quitReq, recVars,
                   events, hist, notLive>>

WorkerStep(w) ==
    \/ WOpenStreams(w)
    \/ WSetRunning(w)
    \/ WSetPaused(w)
    \/ WLoopTest(w)
    \/ WCheckPaused(w)
    \/ WReadBegin(w)
    \/ WReadEnd(w)
    \/ WProcess(w)
    \/ WFlush(w)
    \/ WClose(w)
    \/ WThreadFinish(w)

\* ------------------------------------------------------- the live session
\* No FileTranscriptionWorker exists in the live-session specification.
FwIdle == [pc |-> "idle"]
\* No AudioEngine driven call by call.
MxIdle == [op |-> "idle"]
\* No TranscriptionEngine driven call by call.
TeIdle == [op |-> "idle"]

Init == LiveInit /\ fw = FwIdle /\ mx = MxIdle /\ te = TeIdle

Next ==
    \/ StartSession
    \/ PauseSession
    \/ ResumeSession
    \/ StopSession
    \/ StopWaitDone
    \/ StopWaitTimeout
    \/ Shutdown
    \/ OnError
    \/ OnText
    \/ AutosaveTick
    \/ \E w \in Workers : WorkerStep(w)

Spec == Init /\ [][Next]_vars

\* The worker threads are scheduled: a worker that can take a step takes one.
FairSpec == Spec /\ \A w \in Workers : WF_vars(WorkerStep(w))

\* ============================================================ batch run
\* total_frames of the converted file: empty, shorter than a chunk, whole
\* chunks, and chunks plus a short last one.
Totals ==
    {0} \cup { k * CHUNK_FRAMES + d :
                 k \in 0..(MaxChunks - 1),
                 d \in {1, CHUNK_FRAMES \div 2, CHUNK_FRAMES} }

\* FileTranscriptionWorker.__init__, then QThread.start().
FwStart ==
    [ pc         |-> "ensure_wav",
      cancelled  |-> FALSE,     \* _is_cancelled
      tempWav    |-> FALSE,     \* _temp_wav is a path
      tempExists |-> FALSE,     \* the file at that path exists
      total      |-> 0,         \* total_frames
      framesRead |-> 0,         \* frames readframes has returned so far
      processed  |-> 0,         \* frames_processed
      lastPct    |-> -1,        \* last_pct
      \* ---- what the run emitted and did (observers)
      progress   |-> << >>,     \* progress_updated values, in order
      texts      |-> 0,         \* text_updated emissions
      errors     |-> 0,         \* error_occurred emissions
      finished   |-> 0,         \* finished_signal emissions
      accepts    |-> 0,         \* AcceptWaveform calls
      chunks     |-> 0,         \* readframes calls that returned data
      cancelAt   |-> "none",    \* where the run was when cancel() first came
      cancelChunks |-> 0,       \* chunks read by then
      acceptsAfter |-> 0,       \* AcceptWaveform calls begun after it
      cancelCalls |-> 0,        \* cancel() calls so far
      raisedMsg  |-> "none",    \* message of the exception on its way to run
      errMsg     |-> "none",    \* message of the error_occurred emitted
      stderrLen  |-> 0,         \* characters ffmpeg wrote to stderr
      excerpt    |-> 0,         \* how many of them the message carries
      waveOpened |-> FALSE,     \* wave.open was reached
      log        |-> << >>,     \* reads and emissions, in order
      exit       |-> "none",    \* how _do_transcription ended
      created    |-> FALSE,     \* _ensure_wav created a temporary file
      removeFail |-> FALSE ]    \* os.remove raised in _cleanup

FileInit == LiveInit /\ fw = FwStart /\ mx = MxIdle /\ te = TeIdle

\* Mutant of FCancel: cancel() flips the flag.
FCancel_Toggles ==
    /\ fw.pc \notin {"idle", "done"}
    /\ fw' = [fw EXCEPT !.cancelled = ~@]
    /\ UNCHANGED notBatch

\* FileTranscriptionWorker.cancel, called by the controlling thread while the
\* worker exists (cancel_file_transcription, shutdown).
FCancel ==
    /\ fw.pc \notin {"idle", "done"}
    /\ fw' = [fw EXCEPT !.cancelled = TRUE,
                        !.cancelCalls = Bump(@),
                        !.cancelAt = IF @ = "none" THEN fw.pc ELSE @,
                        !.cancelChunks = IF fw.cancelAt = "none"
                                           THEN fw.chunks ELSE @]
    /\ UNCHANGED notBatch

\* Characters ffmpeg may have written to stderr when it failed.
StderrLens == {0, 499, 500, 501}

\* line 185: result.stderr[:500]
STDERR_MAX == 500

\* Mutant of Excerpt: the whole of stderr goes into the message.
Excerpt_Whole(n) == n

Excerpt(n) == Min(n, STDERR_MAX)

\* An entry of the run's log; k is the chunk it belongs to, 0 for none.
Entry(kind, k) == [kind |-> kind, k |-> k]

\* _ensure_wav: no ffmpeg -> RuntimeError before any file is created; else
\* mkstemp creates the file and ffmpeg runs; a non-zero exit -> RuntimeError
\* (what ffmpeg left of the file is not known).
FEnsureWav ==
    /\ fw.pc = "ensure_wav"
    /\ \E outcome \in {"no_ffmpeg", "convert_failed", "ok"} :
        \E t \in Totals : \E left \in BOOLEAN : \E n \in StderrLens :
          fw' = CASE outcome = "no_ffmpeg" ->
                       [fw EXCEPT !.pc = "except", !.exit = "no_ffmpeg",
                                  !.raisedMsg = "install_hint"]
                  [] outcome = "convert_failed" ->
                       [fw EXCEPT !.pc = "except", !.exit = "convert_failed",
                                  !.raisedMsg = "conversion_failed",
                                  !.stderrLen = n, !.excerpt = Excerpt(n),
                                  !.tempWav = TRUE, !.created = TRUE,
                                  !.tempExists = left]
                  [] outcome = "ok" ->
                       [fw EXCEPT !.pc = "check_cancel", !.tempWav = TRUE,
                                  !.created = TRUE, !.tempExists = TRUE,
                                  !.total = t]
    /\ UNCHANGED notBatch

\* _do_transcription, lines 89-90: if self._is_cancelled: return
FCheckCancel ==
    /\ fw.pc = "check_cancel"
    /\ fw' = IF fw.cancelled
               THEN [fw EXCEPT !.pc = "cleanup", !.exit = "cancelled"]
               ELSE [fw EXCEPT !.pc = "load_model"]
    /\ UNCHANGED notBatch

\* lines 93-106: the model directory is missing -> error_occurred, return;
\* Model() or KaldiRecognizer() raising leaves through run's except.
FLoadModel ==
    /\ fw.pc = "load_model"
    /\ \E outcome \in {"missing", "raise", "ok"} :
        fw' = CASE outcome = "missing" ->
                     [fw EXCEPT !.pc = "cleanup", !.exit = "no_model",
                                !.errors = Bump(@),
                                !.errMsg = "model_not_found",
                                !.log = Append(@, Entry("error", 0))]
                [] outcome = "raise" ->
                     [fw EXCEPT !.pc = "except", !.exit = "exception",
                                !.raisedMsg = "exception"]
                [] outcome = "ok" -> [fw EXCEPT !.pc = "open_wav"]
    /\ UNCHANGED notBatch

\* Mutant of FOpenWav: a file of zero frames is not told apart.
FOpenWav_NoEmptyTest ==
    /\ fw.pc = "open_wav"
    /\ fw' = [fw EXCEPT !.pc = "loop", !.waveOpened = TRUE,
                        !.processed = 0, !.lastPct = -1]
    /\ UNCHANGED notBatch

\* lines 109-116: wave.open, getnframes; zero frames -> error_occurred, return.
FOpenWav ==
    /\ fw.pc = "open_wav"
    /\ fw' = IF fw.total = 0
               THEN [fw EXCEPT !.pc = "cleanup", !.exit = "empty",
                               !.waveOpened = TRUE,
                               !.errors = Bump(@),
                               !.errMsg = "empty_audio",
                               !.log = Append(@, Entry("error", 0))]
               ELSE [fw EXCEPT !.pc = "loop", !.waveOpened = TRUE,
                               !.processed = 0, !.lastPct = -1]
    /\ UNCHANGED notBatch

\* Mutant of FLoopCancel: the loop does not test the flag.
FLoopCancel_NoCheck ==
    /\ fw.pc = "loop"
    /\ fw' = [fw EXCEPT !.pc = "read_frames"]
    /\ UNCHANGED notBatch

\* lines 119-120, top of the chunk loop: if self._is_cancelled: return
FLoopCancel ==
    /\ fw.pc = "loop"
    /\ fw' = IF fw.cancelled
               THEN [fw EXCEPT !.pc = "cleanup", !.exit = "cancelled"]
               ELSE [fw EXCEPT !.pc = "read_frames"]
    /\ UNCHANGED notBatch

\* lines 122-126: readframes returns what is left, at most a chunk; nothing
\* left ends the loop; else frames_processed grows by a whole chunk.
FReadFrames ==
    /\ fw.pc = "read_frames"
    /\ LET n == Min(CHUNK_FRAMES, fw.total - fw.framesRead) IN
        fw' = IF n = 0
                THEN [fw EXCEPT !.pc = "flush"]
                ELSE [fw EXCEPT !.pc = "accept",
                                !.chunks = @ + 1,
                                !.log = Append(@, Entry("read", fw.chunks + 1)),
                                !.framesRead = @ + n,
                                !.processed = @ + CHUNK_FRAMES]
    /\ UNCHANGED notBatch

\* lines 128-132: AcceptWaveform; an utterance with text is emitted at once.
FAccept ==
    /\ fw.pc = "accept"
    /\ \E res \in {"text", "none", "raise"} :
        LET after == IF fw.cancelled THEN fw.acceptsAfter + 1
                                     ELSE fw.acceptsAfter
        IN fw' = CASE res = "text" ->
                     [fw EXCEPT !.pc = "progress", !.accepts = Bump(@),
                                !.acceptsAfter = after, !.texts = Bump(@),
                                !.log = Append(@, Entry("text", fw.chunks))]
                [] res = "none" ->
                     [fw EXCEPT !.pc = "progress", !.accepts = Bump(@),
                                !.acceptsAfter = after]
                [] res = "raise" ->
                     [fw EXCEPT !.pc = "except", !.accepts = Bump(@),
                                !.acceptsAfter = after,
                                !.exit = "exception",
                                !.raisedMsg = "exception"]
    /\ UNCHANGED notBatch

\* ---- line 135 is computed in binary floating point: the quotient of the
\* ---- two ints and its product with 100 are each rounded to the nearest
\* ---- double (ties to even), and int() drops the fraction. A double is
\* ---- [m, e], of value m * 2^e, with m a number of 53 bits. Numbers of that
\* ---- size are written in base 4096, most significant digit first.

\* Bits of a double's significand.
MANT == 53
\* Bits of one digit, and the base.
LIMB_BITS == 12
LIMB == 4096
\* Digits of the quotient computed after the point (frame counts are below
\* 2^19, so that more than MANT + 1 significant bits come out).
FRAC_LIMBS == 7

RECURSIVE Pow2(_)
Pow2(n) == IF n = 0 THEN 1 ELSE 2 * Pow2(n - 1)

RECURSIVE BitCount(_)
\* The number of binary digits of n; 0 for 0.
BitCount(n) == IF n = 0 THEN 0 ELSE 1 + BitCount(n \div 2)

RECURSIVE BigOf(_)
BigOf(n) == IF n = 0 THEN << >> ELSE Append(BigOf(n \div LIMB), n % LIMB)

RECURSIVE BigToInt(_)
BigToInt(x) ==
    IF x = << >> THEN 0
    ELSE BigToInt(SubSeq(x, 1, Len(x) - 1)) * LIMB + x[Len(x)]

RECURSIVE Strip0(_)
\* Without its leading zero digits.
Strip0(x) == IF x # << >> /\ x[1] = 0 THEN Strip0(Tail(x)) ELSE x

BitLen(x) ==
    LET y == Strip0(x)
    IN IF y = << >> THEN 0 ELSE LIMB_BITS * (Len(y) - 1) + BitCount(y[1])

RECURSIVE BigDivSmall(_, _, _)
\* (rem, x) divided by k <= LIMB: quotient and remainder.
BigDivSmall(x, k, rem) ==
    IF x = << >> THEN [q |-> << >>, rem |-> rem]
    ELSE LET t == rem * LIMB + x[1]
             rest == BigDivSmall(Tail(x), k, t % k)
         IN [q |-> <<t \div k>> \o rest.q, rem |-> rest.rem]

RECURSIVE BigMulSmall(_, _, _)
\* x * k + carry, for k and carry below LIMB.
BigMulSmall(x, k, carry) ==
    IF x = << >> THEN (IF carry = 0 THEN << >> ELSE <<carry>>)
    ELSE LET n == Len(x)
             t == x[n] * k + carry
         IN Append(BigMulSmall(SubSeq(x, 1, n - 1), k, t \div LIMB),
                   t % LIMB)

RECURSIVE BigIncr(_)
BigIncr(x) ==
    IF x = << >> THEN <<1>>
    ELSE IF x[Len(x)] < LIMB - 1 THEN [x EXCEPT ![Len(x)] = @ + 1]
    ELSE Append(BigIncr(SubSeq(x, 1, Len(x) - 1)), 0)

RECURSIVE FracLimbs(_, _, _)
\* The next n digits of r / b (r < b < 2^19), and the remainder left.
FracLimbs(r, b, n) ==
    IF n = 0 THEN [limbs |-> << >>, rem |-> r]
    ELSE LET t == r * LIMB
             rest == FracLimbs(t % b, b, n - 1)
         IN [limbs |-> <<t \div b>> \o rest.limbs, rem |-> rest.rem]

\* x without its last d >= 1 bits: what is left, the first bit dropped, and
\* whether anything non-zero followed it (tail: something non-zero follows x).
BigShr(x, d, tail) ==
    LET q == (d - 1) \div LIMB_BITS
        t == d - LIMB_BITS * q
        keep == IF Len(x) > q THEN Len(x) - q ELSE 0
        dv == BigDivSmall(SubSeq(x, 1, keep), Pow2(t), 0)
    IN [ q      |-> Strip0(dv.q),
         round  |-> dv.rem >= Pow2(t - 1),
         sticky |-> \/ tail
                    \/ \E i \in (keep + 1)..Len(x) : x[i] # 0
                    \/ dv.rem % Pow2(t - 1) # 0 ]

\* Round to nearest, ties to even: x (of more than MANT bits) times 2^e,
\* followed by something non-zero iff tail.
RoundNearest(x, e, tail) ==
    LET d == BitLen(x) - MANT
        s == BigShr(x, d, tail)
        up == s.round /\ (s.sticky \/ s.q[Len(s.q)] % 2 = 1)
        m2 == IF up THEN BigIncr(s.q) ELSE s.q
    IN IF BitLen(m2) > MANT
         THEN [m |-> BigShr(m2, 1, FALSE).q, e |-> e + d + 1]
         ELSE [m |-> m2, e |-> e + d]

\* a / b for positive ints.
FloatDiv(a, b) ==
    LET f == FracLimbs(a % b, b, FRAC_LIMBS)
    IN RoundNearest(Strip0(BigOf(a \div b) \o f.limbs),
                    -(LIMB_BITS * FRAC_LIMBS), f.rem # 0)

\* x * 100
FloatMul100(x) == RoundNearest(BigMulSmall(x.m, 100, 0), x.e, FALSE)

\* int(x) for 0 < x < 2^31
FloatTrunc(x) == BigToInt(BigShr(x.m, -x.e, FALSE).q)

\* Mutant of Pct: the clamp to 100 is missing.
Pct_NoClamp(processed, total) ==
    FloatTrunc(FloatMul100(FloatDiv(processed, total)))

\* line 135: pct = min(int((frames_processed / total_frames) * 100), 100)
Pct(processed, total) ==
    Min(FloatTrunc(FloatMul100(FloatDiv(processed, total))), 100)

\* lines 135-138: progress_updated when the value changed.
FProgress ==
    /\ fw.pc = "progress"
    /\ LET pct == Pct(fw.processed, fw.total) IN
        fw' = IF pct # fw.lastPct
                THEN [fw EXCEPT !.pc = "loop", !.lastPct = pct,
                                !.progress = Append(@, pct),
                                !.log = Append(@, Entry("progress", fw.chunks))]
                ELSE [fw EXCEPT !.pc = "loop"]
    /\ UNCHANGED notBatch

\* lines 141-144: FinalResult, its text emitted when not empty.
FFlush ==
    /\ fw.pc = "flush"
    /\ \E res \in {"text", "none", "raise"} :
        fw' = CASE res = "text" ->
                     [fw EXCEPT !.pc = "final_progress", !.texts = Bump(@),
                                !.log = Append(@, Entry("flush_text", 0))]
                [] res = "none" -> [fw EXCEPT !.pc = "final_progress"]
                [] res = "raise" ->
                     [fw EXCEPT !.pc = "except", !.exit = "exception",
                                !.raisedMsg = "exception"]
    /\ UNCHANGED notBatch

\* line 146: self.progress_updated.emit(100)
FFinalProgress ==
    /\ fw.pc = "final_progress"
    /\ fw' = [fw EXCEPT !.pc = "finish", !.progress = Append(@, 100),
                        !.log = Append(@, Entry("final_progress", 0))]
    /\ UNCHANGED notBatch

\* Mutant of FFinish: the flush text is emitted after finished_signal.
FFinish_ThenText ==
    /\ fw.pc = "finish"
    /\ fw' = [fw EXCEPT !.pc = "cleanup", !.exit = "completed",
                        !.finished = Bump(@), !.texts = Bump(@),
                        !.log = @ \o << Entry("finished", 0),
                                        Entry("flush_text", 0) >>]
    /\ UNCHANGED notBatch

\* line 147: self.finished_signal.emit()
FFinish ==
    /\ fw.pc = "finish"
    /\ fw' = [fw EXCEPT !.pc = "cleanup", !.exit = "completed",
                        !.finished = Bump(@),
                        !.log = Append(@, Entry("finished", 0))]
    /\ UNCHANGED notBatch

\* Mutant of FExcept: the exception is logged but no error event is emitted.
FExcept_Silent ==
    /\ fw.pc = "except"
    /\ fw' = [fw EXCEPT !.pc = "cleanup"]
    /\ UNCHANGED notBatch

\* run, lines 78-80: except Exception -> error_occurred.emit(str(e))
FExcept ==
    /\ fw.pc = "except"
    /\ fw' = [fw EXCEPT !.pc = "cleanup", !.errors = Bump(@),
                        !.errMsg = fw.raisedMsg,
                        !.log = Append(@, Entry("error", 0))]
    /\ UNCHANGED notBatch

\* Mutant of FCleanup: the path is forgotten but the file is not removed.
FCleanup_KeepsFile ==
    /\ fw.pc = "cleanup"
    /\ fw' = [fw EXCEPT !.pc = "done", !.tempWav = FALSE]
    /\ UNCHANGED notBatch

\* run's finally -> _cleanup: remove the temporary file if it exists; an
\* OSError of os.remove is logged and swallowed.
FCleanup ==
    /\ fw.pc = "cleanup"
    /\ IF fw.tempWav /\ fw.tempExists
         THEN \E fails \in BOOLEAN :
                fw' = [fw EXCEPT !.pc = "done", !.tempWav = FALSE,
                                 !.tempExists = fails, !.removeFail = fails]
         ELSE fw' = [fw EXCEPT !.pc = "done"]
    /\ UNCHANGED notBatch

FileNext ==
    \/ FCancel
    \/ FEnsureWav
    \/ FCheckCancel
    \/ FLoadModel
    \/ FOpenWav
    \/ FLoopCancel
    \/ FReadFrames
    \/ FAccept
    \/ FProgress
    \/ FFlush
    \/ FFinalProgress
    \/ FFinish
    \/ FExcept
    \/ FCleanup

\* One batch run, with cancel() arriving at any point.
FileSpec == FileInit /\ [][FileNext]_vars

\* ------------------------------------------------- progress of long files
\* The progress arithmetic of the loop (lines 115-138) on files of up to
\* MaxLongChunks chunks, the recognizer left out: it has no part in it.

\* Chunks of the longest file.
MaxLongChunks == 50

\* total_frames: whole chunks, and a last chunk half full or one frame long.
LongTotals ==
    { c * CHUNK_FRAMES - d :
        c \in 1..MaxLongChunks,
        d \in {0, CHUNK_FRAMES \div 2, CHUNK_FRAMES - 1} }

\* lines 115-116, on a file of the given length.
PgStart(total) ==
    [ pc         |-> "pct",
      total      |-> total,     \* total_frames
      chunks     |-> 0,         \* chunks read
      framesRead |-> 0,         \* frames readframes has returned
      processed  |-> 0,         \* frames_processed
      lastPct    |-> -1,        \* last_pct
      pct        |-> -1,        \* pct of the last chunk
      emitted    |-> FALSE ]    \* progress_updated was emitted for it

ProgressInit ==
    /\ LiveInit
    /\ mx = MxIdle
    /\ te = TeIdle
    /\ \E total \in LongTotals : fw = PgStart(total)

\* lines 122-138 for one chunk: readframes, frames_processed, pct,
\* progress_updated when it changed.
PChunk ==
    /\ fw.pc = "pct"
    /\ LET n == Min(CHUNK_FRAMES, fw.total - fw.framesRead)
           processed == fw.processed + CHUNK_FRAMES
           pct == Pct(processed, fw.total)
       IN /\ n > 0
          /\ fw' = [fw EXCEPT !.chunks = @ + 1,
                              !.framesRead = @ + n,
                              !.processed = processed,
                              !.pct = pct,
                              !.emitted = (pct # fw.lastPct),
                              !.lastPct = pct]
    /\ UNCHANGED notBatch

ProgressNext == PChunk

ProgressSpec == ProgressInit /\ [][ProgressNext]_vars

\* ========================================================= stream mixer
\* One AudioEngine driven call by call from a single thread: open_streams,
\* read_and_mix, close_streams and terminate in any order.

\* Entries of the longest source list handed to open_streams.
MaxMixSources == 3
\* open_streams calls in one behaviour.
MaxOpens == 2

\* Gains are slider percentages over 100.0 (ui.py line 135); those used here
\* are dyadic, so the float product sample * gain is the exact fraction.
Half == [n |-> 1, d |-> 2]
ThreeQuarters == [n |-> 3, d |-> 4]
Unity == [n |-> 1, d |-> 1]
Gains == {Half, ThreeQuarters, Unity}
\* The gains of the source lists handed to open_streams call after call.
ListGains == {Half, Unity}

\* int16 samples a stream delivers at one position of the chunk: the range
\* ends, zero, and small values whose scaled product has a fractional part.
Samples == {-32768, -3, -1, 0, 1, 3, 32767}
\* Silence and full scale.
LevelSamples == {0, 32767}

\* {"device_index", "gain", "enabled"} entries; whether a device opens is an
\* outcome of the call, not part of the entry.
SourceLists(gains) ==
    UNION { [1..n -> [enabled : BOOLEAN, gain : gains]] :
              n \in 0..MaxMixSources }

\* The entries of a list whose device is asked to open: the enabled ones.
Enabled(sources) == { i \in DOMAIN sources : sources[i].enabled }

\* int(x) of the fraction n/d: truncation towards zero.
TruncDiv(n, d) == IF n >= 0 THEN n \div d ELSE -((-n) \div d)

\* Mutant of Clamp16: the lower bound is missing.
Clamp16_NoLowerBound(value) == IF value > 32767 THEN 32767 ELSE value

\* _clamp16
Clamp16(value) ==
    IF value < -32768 THEN -32768 ELSE IF value > 32767 THEN 32767 ELSE value

\* Mutant of Scaled: the product is rounded up, not truncated.
Scaled_RoundsUp(sample, gain) ==
    -((-(sample * gain.n)) \div gain.d)

\* line 121: int(s * gain)
Scaled(sample, gain) == TruncDiv(sample * gain.n, gain.d)

\* lines 110-121 at one sample position: a stream that is inactive or whose
\* read raises OSError is skipped; the others add int(s * gain) to mixed[i].
\* ins[k] is the sample stream k delivers; live is the set of streams that
\* deliver one.
RECURSIVE MixSum(_, _, _, _)
MixSum(handles, ins, live, k) ==
    IF k = 0 THEN 0
    ELSE MixSum(handles, ins, live, k - 1)
           + (IF k \in live THEN Scaled(ins[k], handles[k].gain) ELSE 0)

\* Mutant of ReadAndMix: no handle gives a frame of silence, not empty bytes.
ReadAndMix_SilenceWhenEmpty(handles, ins, live) ==
    << Clamp16(MixSum(handles, ins, live, Len(handles))) >>

\* read_and_mix at one sample position: empty bytes with no handle, else the
\* buffer holding the clamped sum.
ReadAndMix(handles, ins, live) ==
    IF handles = << >> THEN << >>
    ELSE << Clamp16(MixSum(handles, ins, live, Len(handles))) >>

\* frames per buffer
CHUNK_SIZE == 4000

\* Mutant of MixedLen: a cycle in which no stream delivered returns empty
\* bytes.
MixedLen_NoneLiveEmpty(handles, live) ==
    IF handles = << >> \/ live = {} THEN 0 ELSE CHUNK_SIZE

\* Samples in the buffer read_and_mix returns: none with no handle (line
\* 105), else the CHUNK_SIZE positions of `mixed` (lines 107, 124-125),
\* whichever streams delivered.
MixedLen(handles, live) ==
    IF handles = << >> THEN 0 ELSE CHUNK_SIZE

\* run, lines 76-80: an empty buffer backs off (msleep(10), continue), any
\* other goes to process_chunk.
AfterRead(len) == IF len = 0 THEN "backoff" ELSE "process"

\* What stopping and closing one handle can do: both succeed, stop_stream
\* raises OSError (close is then skipped), or close raises OSError.
CloseOutcomes(handles) ==
    [1..Len(handles) -> {"ok", "stop_failed", "close_failed"}]

\* Mutant of CloseStreams: the first OSError leaves the loop and the call.
CloseStreams_StopAtError(handles, outcomes) ==
    LET bad == { i \in 1..Len(handles) : outcomes[i] # "ok" }
        first == IF bad = {} THEN Len(handles) + 1
                 ELSE CHOOSE i \in bad : \A j \in bad : i <= j
    IN [ streams |-> IF bad = {} THEN << >> ELSE handles,
         raised  |-> bad # {},
         closed  |-> { handles[i] : i \in 1..(first - 1) },
         failed  |-> { handles[i] : i \in bad \cap {first} } ]

\* close_streams: every handle goes through the try block; an OSError is
\* swallowed; the list is cleared.
CloseStreams(handles, outcomes) ==
    [ streams |-> << >>,
      raised  |-> FALSE,
      closed  |-> { handles[i] :
                      i \in { j \in 1..Len(handles) : outcomes[j] = "ok" } },
      failed  |-> { handles[i] :
                      i \in { j \in 1..Len(handles) : outcomes[j] # "ok" } } ]

\* The handles call number gen would open, one per entry of the list.
Candidates(gen, sources) ==
    [i \in 1..Len(sources) |->
        [gen |-> gen, src |-> i, gain |-> sources[i].gain]]

\* Mutant of OpenStreams: an empty result is returned, not raised.
OpenStreams_NoRaise(gen, sources, devOk) ==
    [ streams |-> SelectSeq(Candidates(gen, sources),
                     LAMBDA h : sources[h.src].enabled /\ h.src \in devOk),
      raised  |-> FALSE ]

\* Mutant of OpenStreams: the enabled flag is not looked at, and the device
\* of a disabled entry opens.
OpenStreams_IgnoresEnabled(gen, sources, devOk) ==
    LET hs == SelectSeq(Candidates(gen, sources),
                 LAMBDA h : ~sources[h.src].enabled \/ h.src \in devOk)
    IN [ streams |-> hs, raised |-> hs = << >> ]

\* open_streams after its close_streams, lines 77-97: one handle per enabled
\* entry whose device opens (devOk), in list order, with the entry's gain;
\* RuntimeError when none opened.
OpenStreams(gen, sources, devOk) ==
    LET hs == SelectSeq(Candidates(gen, sources),
                 LAMBDA h : sources[h.src].enabled /\ h.src \in devOk)
    IN [ streams |-> hs, raised |-> hs = << >> ]

\* AudioEngine.__init__
MxStart ==
    [ op      |-> "new",
      pa      |-> FALSE,      \* _pa is a PyAudio instance
      streams |-> << >>,      \* _streams
      \* ---- the last call (its arguments, outcomes and result) and what
      \* ---- the calls did to the handles (observers)
      calls   |-> 0,          \* open_streams calls so far
      raised  |-> FALSE,      \* the last call raised
      sources |-> << >>,      \* argument of the last open_streams
      devOk   |-> {},         \* entries whose device opened in it
      before  |-> << >>,      \* _streams when the last call began
      opened  |-> {},         \* handles open_streams ever appended
      closed  |-> {},         \* handles stopped and closed
      failed  |-> {},         \* handles whose stop or close raised OSError
      mixIn   |-> << >>,      \* samples the streams held at the last read
      mixLive |-> {},         \* streams that delivered theirs
      mixOut  |-> << >>,      \* its result: no bytes, or one sample position
      mixLen  |-> 0 ]         \* samples in the buffer it returned

MixerInit == LiveInit /\ fw = FwIdle /\ mx = MxStart /\ te = TeIdle

\* Mutant of MOpenStreams: the previous handles are neither closed nor
\* dropped; the new ones are appended after them.
MOpenStreams_NoClose ==
    /\ mx.op # "idle"
    /\ mx.calls < MaxOpens
    /\ \E sources \in SourceLists(ListGains) :
       \E devOk \in SUBSET Enabled(sources) :
        LET gen == mx.calls + 1
            o == OpenStreams(gen, sources, devOk)
        IN mx' = [mx EXCEPT !.op = "open", !.pa = TRUE, !.calls = gen,
                            !.before = mx.streams,
                            !.mixIn = << >>, !.mixLive = {},
                            !.mixOut = << >>, !.mixLen = 0,
                            !.sources = sources, !.devOk = devOk,
                            !.streams = mx.streams \o o.streams,
                            !.raised = (mx.streams \o o.streams = << >>),
                            !.opened = @ \cup { o.streams[i] :
                                                  i \in DOMAIN o.streams }]
    /\ UNCHANGED notMixer

\* open_streams(sources): init, close_streams, then the opens.
MOpenStreams ==
    /\ mx.op # "idle"
    /\ mx.calls < MaxOpens
    /\ \E sources \in SourceLists(ListGains) :
       \E devOk \in SUBSET Enabled(sources) :
       \E outcomes \in CloseOutcomes(mx.streams) :
        LET gen == mx.calls + 1
            c == CloseStreams(mx.streams, outcomes)
            o == OpenStreams(gen, sources, devOk)
        IN mx' = [mx EXCEPT !.op = "open", !.pa = TRUE, !.calls = gen,
                            !.before = mx.streams,
                            !.mixIn = << >>, !.mixLive = {},
                            !.mixOut = << >>, !.mixLen = 0,
                            !.sources = sources, !.devOk = devOk,
                            !.streams = c.streams \o o.streams,
                            !.raised = c.raised \/ o.raised,
                            !.closed = @ \cup c.closed,
                            !.failed = @ \cup c.failed,
                            !.opened = @ \cup { o.streams[i] :
                                                  i \in DOMAIN o.streams }]
    /\ UNCHANGED notMixer

\* Mutant of ReadStep: a stream that delivered nothing is dropped from the
\* handle set.
ReadStep_DropsFailed(samples) ==
    /\ \E live \in SUBSET (1..Len(mx.streams)) :
       \E ins \in [1..Len(mx.streams) -> samples] :
        /\ \A k \in DOMAIN ins : k \notin live => ins[k] = 0
        /\ mx' = [mx EXCEPT !.op = "read", !.before = mx.streams,
                            !.sources = << >>, !.devOk = {},
                            !.raised = FALSE, !.mixIn = ins,
                            !.mixLive = live,
                            !.mixOut = ReadAndMix(mx.streams, ins, live),
                            !.mixLen = MixedLen(mx.streams, live),
                            !.streams = SelectSeq(mx.streams,
                               LAMBDA h : \E k \in live : mx.streams[k] = h)]
    /\ UNCHANGED notMixer

\* read_and_mix with each stream delivering a sample from `samples`, or
\* being skipped.
ReadStep(samples) ==
    /\ \E live \in SUBSET (1..Len(mx.streams)) :
       \E ins \in [1..Len(mx.streams) -> samples] :
        \* only what a stream delivered is looked at
        /\ \A k \in DOMAIN ins : k \notin live => ins[k] = 0
        /\ mx' = [mx EXCEPT !.op = "read", !.before = mx.streams,
                            !.sources = << >>, !.devOk = {},
                            !.raised = FALSE, !.mixIn = ins,
                            !.mixLive = live,
                            !.mixOut = ReadAndMix(mx.streams, ins, live),
                            !.mixLen = MixedLen(mx.streams, live)]
    /\ UNCHANGED notMixer

MReadAndMix ==
    /\ mx.op # "idle"
    /\ ReadStep(LevelSamples)

\* close_streams()
MCloseStreams ==
    /\ mx.op # "idle"
    /\ \E outcomes \in CloseOutcomes(mx.streams) :
        LET c == CloseStreams(mx.streams, outcomes)
        IN mx' = [mx EXCEPT !.op = "close", !.before = mx.streams,
                            !.sources = << >>, !.devOk = {},
                            !.mixIn = << >>, !.mixLive = {},
                            !.mixOut = << >>, !.mixLen = 0,
                            !.streams = c.streams, !.raised = c.raised,
                            !.closed = @ \cup c.closed,
                            !.failed = @ \cup c.failed]
    /\ UNCHANGED notMixer

\* terminate(): close_streams, then the PyAudio instance is dropped.
MTerminate ==
    /\ mx.op # "idle"
    /\ \E outcomes \in CloseOutcomes(mx.streams) :
        LET c == CloseStreams(mx.streams, outcomes)
        IN mx' = [mx EXCEPT !.op = "terminate", !.before = mx.streams,
                            !.sources = << >>, !.devOk = {},
                            !.mixIn = << >>, !.mixLive = {},
                            !.mixOut = << >>, !.mixLen = 0,
                            !.streams = c.streams, !.raised = c.raised,
                            !.pa = IF c.raised THEN @ ELSE FALSE,
                            !.closed = @ \cup c.closed,
                            !.failed = @ \cup c.failed]
    /\ UNCHANGED notMixer

MixerNext ==
    \/ MOpenStreams
    \/ MReadAndMix
    \/ MCloseStreams
    \/ MTerminate

MixerSpec == MixerInit /\ [][MixerNext]_vars

\* ------------------------------------------------------ device listing
\* One AudioEngine whose init, list_input_devices, open_streams and terminate
\* are called in any order, on a machine with a fixed device table.

\* Devices the audio subsystem enumerates.
MaxDevices == 2
\* PyAudio instances one behaviour creates.
MaxInstances == 2

\* What get_device_info_by_index returns: the maxInputChannels key may be
\* missing.
DeviceInfos ==
    {[known |-> FALSE, channels |-> 0]} \cup
    {[known |-> TRUE, channels |-> c] : c \in 0..2}

DeviceTables ==
    UNION {[1..n -> DeviceInfos] : n \in 0..MaxDevices}

\* line 58: info.get("maxInputChannels", 0)
MaxInputChannels(info) == IF info.known THEN info.channels ELSE 0

\* Mutant of ListInputDevices: each entry is numbered by its place in the
\* returned list.
ListInputDevices_Renumbered(table) ==
    LET kept == SelectSeq([i \in 1..Len(table) |-> i],
                    LAMBDA i : MaxInputChannels(table[i]) > 0)
    IN [j \in 1..Len(kept) |->
          [index |-> j - 1,
           max_input_channels |-> table[kept[j]].channels]]

\* list_input_devices after its init, lines 55-64: range(get_device_count())
\* numbers the devices from 0.
ListInputDevices(table) ==
    LET kept == SelectSeq([i \in 1..Len(table) |-> i],
                    LAMBDA i : MaxInputChannels(table[i]) > 0)
    IN [j \in 1..Len(kept) |->
          [index |-> kept[j] - 1,
           max_input_channels |-> table[kept[j]].channels]]

\* AudioEngine.__init__ on a machine with the given device table.
DvStart(table) ==
    [ op      |-> "new",
      pa      |-> FALSE,      \* _pa is a PyAudio instance
      streams |-> << >>,      \* _streams
      table   |-> table,      \* the subsystem's devices, in enumeration order
      created |-> 0,          \* PyAudio instances created
      dropped |-> 0,          \* PyAudio instances terminated
      opens   |-> 0,          \* open_streams calls
      result  |-> << >>,      \* what the last list_input_devices returned
      before  |-> [pa |-> FALSE, streams |-> << >>, created |-> 0] ]

DeviceInit ==
    /\ LiveInit
    /\ fw = FwIdle
    /\ te = TeIdle
    /\ \E table \in DeviceTables : mx = DvStart(table)

\* What the engine held when a call began.
DvBefore == [pa |-> mx.pa, streams |-> mx.streams, created |-> mx.created]

\* init(), lines 36-38, as a change of the engine.
DvInit ==
    IF mx.pa THEN mx ELSE [mx EXCEPT !.pa = TRUE, !.created = @ + 1]

\* init()
DInit ==
    /\ mx.op # "idle"
    /\ mx.pa \/ mx.created < MaxInstances
    /\ mx' = [DvInit EXCEPT !.op = "init", !.before = DvBefore]
    /\ UNCHANGED notMixer

\* list_input_devices()
DListInputDevices ==
    /\ mx.op # "idle"
    /\ mx.pa \/ mx.created < MaxInstances
    /\ mx' = [DvInit EXCEPT !.op = "list", !.before = DvBefore,
                            !.result = ListInputDevices(mx.table)]
    /\ UNCHANGED notMixer

\* open_streams(sources): init, close_streams, then the opens.
DOpenStreams ==
    /\ mx.op # "idle"
    /\ mx.pa \/ mx.created < MaxInstances
    /\ mx.opens < MaxOpens
    /\ \E sources \in SourceLists({Unity}) :
       \E devOk \in SUBSET Enabled(sources) :
       \E outcomes \in CloseOutcomes(mx.streams) :
        LET c == CloseStreams(mx.streams, outcomes)
            o == OpenStreams(mx.opens + 1, sources, devOk)
        IN mx' = [DvInit EXCEPT !.op = "open", !.before = DvBefore,
                                !.opens = @ + 1,
                                !.streams = c.streams \o o.streams]
    /\ UNCHANGED notMixer

\* terminate(): close_streams, then the PyAudio instance is dropped.
DTerminate ==
    /\ mx.op # "idle"
    /\ \E outcomes \in CloseOutcomes(mx.streams) :
        LET c == CloseStreams(mx.streams, outcomes)
            drop == mx.pa /\ ~c.raised
        IN mx' = [mx EXCEPT !.op = "terminate", !.before = DvBefore,
                            !.streams = c.streams,
                            !.pa = IF drop THEN FALSE ELSE @,
                            !.dropped = IF drop THEN @ + 1 ELSE @]
    /\ UNCHANGED notMixer

DeviceNext ==
    \/ DInit
    \/ DListInputDevices
    \/ DOpenStreams
    \/ DTerminate

DeviceSpec == DeviceInit /\ [][DeviceNext]_vars

\* ---- one read_and_mix cycle over every sample and gain
\* The engine after open_streams(sources) opened every entry of the list.
MxOpened(sources) ==
    LET o == OpenStreams(1, sources, 1..Len(sources))
    IN [MxStart EXCEPT !.op = "open", !.pa = TRUE, !.calls = 1,
                       !.sources = sources, !.devOk = 1..Len(sources),
                       !.streams = o.streams, !.raised = o.raised,
                       !.opened = { o.streams[i] : i \in DOMAIN o.streams }]

MixInit ==
    /\ LiveInit
    /\ fw = FwIdle
    /\ te = TeIdle
    /\ \E sources \in SourceLists(Gains) :
        /\ sources # << >>
        /\ \A i \in DOMAIN sources : sources[i].enabled
        /\ mx = MxOpened(sources)

MixRead ==
    /\ mx.op = "open"
    /\ ReadStep(Samples)

MixSpec == MixInit /\ [][MixRead]_vars

\* ================================================== transcription engine
\* One TranscriptionEngine driven call by call; the recognizer's answers are
\* inputs.

\* Characters of the longest text the recognizer reports.
MaxTextLen == 3

\* A letter and two kinds of whitespace.
Chars == {"a", " ", "\n"}
White == {" ", "\n"}
Texts == UNION { [1..n -> Chars] : n \in 0..MaxTextLen }

RECURSIVE StripLeft(_)
StripLeft(t) ==
    IF t # << >> /\ Head(t) \in White THEN StripLeft(Tail(t)) ELSE t

RECURSIVE StripRight(_)
StripRight(t) ==
    IF t # << >> /\ t[Len(t)] \in White
      THEN StripRight(SubSeq(t, 1, Len(t) - 1))
      ELSE t

\* Mutant of Strip: only leading whitespace is removed.
Strip_LeftOnly(t) == StripLeft(t)

\* str.strip()
Strip(t) == StripRight(StripLeft(t))

\* None, and a str, as one kind of value.
NoText == [some |-> FALSE, text |-> << >>]
SomeText(t) == [some |-> TRUE, text |-> t]

\* text if text else None
OrNone(t) == IF t # << >> THEN SomeText(t) ELSE NoText

\* result.get(key, ""): the value under the key, "" when the key is absent.
GetText(present, value) == IF present THEN value ELSE << >>

\* process_chunk: AcceptWaveform true (an utterance ended) -> Result()'s
\* "text", else PartialResult()'s "partial".
ProcessChunk(boundary, present, value) ==
    LET text == Strip(GetText(present, value))
    IN IF boundary
         THEN [final |-> OrNone(text), partial |-> NoText]
         ELSE [final |-> NoText, partial |-> OrNone(text)]

\* final_result: FinalResult()'s "text".
FinalResult(present, value) == OrNone(Strip(GetText(present, value)))

\* TranscriptionEngine.__init__ with the model directory present.
TeStart ==
    [ op       |-> "new",
      \* ---- the last call: what the recognizer answered, what was returned
      boundary |-> FALSE,       \* AcceptWaveform's result
      present  |-> FALSE,       \* the JSON has the key
      raw      |-> << >>,       \* the value under it
      out      |-> [final |-> NoText, partial |-> NoText],
      flushed  |-> NoText ]     \* final_result's return value

EngineInit == LiveInit /\ fw = FwIdle /\ mx = MxIdle /\ te = TeStart

TProcessChunk ==
    /\ te.op # "idle"
    /\ \E boundary \in BOOLEAN : \E present \in BOOLEAN : \E value \in Texts :
        /\ ~present => value = << >>
        /\ te' = [TeStart EXCEPT !.op = "chunk", !.boundary = boundary,
                                 !.present = present, !.raw = value,
                                 !.out = ProcessChunk(boundary, present,
                                                      value)]
    /\ UNCHANGED notEngine

TFinalResult ==
    /\ te.op # "idle"
    /\ \E present \in BOOLEAN : \E value \in Texts :
        /\ ~present => value = << >>
        /\ te' = [TeStart EXCEPT !.op = "final", !.present = present,
                                 !.raw = value,
                                 !.flushed = FinalResult(present, value)]
    /\ UNCHANGED notEngine

\* reset: a new KaldiRecognizer on the same model.
TReset ==
    /\ te.op # "idle"
    /\ te' = [TeStart EXCEPT !.op = "reset"]
    /\ UNCHANGED notEngine

EngineNext ==
    \/ TProcessChunk
    \/ TFinalResult
    \/ TReset

EngineSpec == EngineInit /\ [][EngineNext]_vars

\* ============================================================ properties
\* Handles in the mixer's set that worker w opened.
HandlesOf(w) == { i \in DOMAIN streams : streams[i].owner = w }

\* The process is gone (and every handle with it).
ProcessGone(w) == wpc[w] \in {"killed", "raised"}

\* run has returned in worker w.
RunReturned(w) == wpc[w] \in {"returned", "finished"}

\* ---- C1
\* C1: whenever stop() has been called on a worker (stop_session, at any point
\* after start_session started its thread), the worker's capture loop
\* eventually exits: run returns and the worker leaves no handle in the
\* mixer's set.
C1_StopEndsLoop ==
    \A w \in Workers :
        hist[w].stopReq ~>
            (ProcessGone(w) \/ (RunReturned(w) /\ HandlesOf(w) = {}))

\* ---- C2
\* C2: while a pause() on a worker is in effect (requested in the Running
\* state, no resume() or stop() since) the worker starts no new cycle: it never
\* passes the pause test of line 71 towards read_and_mix, so the only
\* read_and_mix, process_chunk and text events left are those of the cycle
\* that had passed the test before pause() was called.
C2_PauseStartsNoCycle ==
    [][ \A w \in Workers :
          (hist[w].pauseOn /\ wpc[w] = "chk_paused") => wpc'[w] # "read" ]_vars

\* ---- C3
\* C3: while a capture loop is inside read_and_mix, no other thread changes the
\* mixer's handle set (open_streams, close_streams, terminate).
C3_NoMutationDuringRead ==
    [][ \A w \in Workers : wpc[w] = "reading" => streams' = streams ]_vars

\* ---- C4
\* C4: a worker whose loop has exited calls final_result exactly once, emits
\* one text_ready for it iff the result is not empty, calls close_streams only
\* after that, and makes no process_chunk call and no loop event afterwards.
C4_FlushOnceThenClose ==
    \A w \in Workers :
        /\ hist[w].finals <= 1
        /\ hist[w].closes <= 1
        /\ ~hist[w].afterFlush
        /\ hist[w].closes > 0 => hist[w].finals = 1
        /\ (wpc[w] \in {"close", "returned", "finished"} /\ ~hist[w].openFailed)
             => /\ hist[w].finals = 1
                /\ hist[w].flushRes \in {"text", "none"}
                /\ hist[w].flushTexts =
                     (IF hist[w].flushRes = "text" THEN 1 ELSE 0)
        /\ (RunReturned(w) /\ ~hist[w].openFailed) => hist[w].closes = 1

\* A stopped worker flushed a non-empty result, closed the streams and returned.
C4_Witness ==
    \E w \in Workers :
        /\ hist[w].stopReq
        /\ wpc[w] = "returned"
        /\ hist[w].flushRes = "text"
        /\ hist[w].closes = 1

\* ---- C5
\* C5: a worker whose open_streams failed has emitted exactly one error event,
\* never set its running flag, made no read_and_mix, process_chunk or
\* final_result call, emitted no text event and holds no handle; once its
\* error has been handled (_on_error) the session state is IDLE.
C5_OpenFailureEndsSession ==
    \A w \in Workers :
        hist[w].openFailed =>
            /\ hist[w].errors = 1
            /\ ~hist[w].acted
            /\ ~running[w]
            /\ hist[w].finals = 0
            /\ wpc[w] \in {"returned", "finished", "killed"}
            /\ \A i \in DOMAIN events :
                 events[i].w = w => events[i].kind = "error"
            /\ HandlesOf(w) = {}
            /\ hist[w].errEnd \in {"pending", "IDLE"}

\* open_streams failed in a worker and its error has been handled.
C5_Witness ==
    \E w \in Workers :
        /\ hist[w].openFailed
        /\ hist[w].errEnd = "IDLE"
        /\ streams = << >>

\* ---- C6
\* C6: a worker in which process_chunk or final_result raised has emitted
\* exactly one error event and has run close_streams.
C6_FailureEmitsErrorAndCloses ==
    \A w \in Workers :
        wpc[w] = "raised" => (hist[w].errors = 1 /\ hist[w].closes = 1)

C8_TempFileRemoved ==
    fw.pc = "done" =>
        /\ fw.tempExists => fw.removeFail
        /\ ~fw.created => ~fw.tempExists
        /\ (fw.removeFail /\ fw.exit \in {"completed", "cancelled"})
             => fw.errors = 0
        /\ fw.removeFail => fw.errors + fw.finished <= 1

\* A cancelled run returned and its temporary file has been removed.
C8_Witness ==
    /\ fw.pc = "done"
    /\ fw.created
    /\ fw.exit = "cancelled"
    /\ ~fw.tempExists
    /\ ~fw.removeFail

\* ---- C9
\* C9: every progress value emitted in a run is in 0..100 and the values are
\* emitted in non-decreasing order.
C9_ProgressMonotone ==
    fw.pc # "idle" =>
        \A i \in DOMAIN fw.progress :
            /\ fw.progress[i] \in 0..100
            /\ i > 1 => fw.progress[i - 1] <= fw.progress[i]

\* A run over a file with a short last chunk emitted three progress values
\* and was then cancelled.
C9_Witness ==
    /\ fw.pc = "done"
    /\ fw.exit = "cancelled"
    /\ Len(fw.progress) >= 3
    /\ fw.total % CHUNK_FRAMES # 0

\* ---- C10
\* C10: a run that emitted finished_signal emitted progress 100 before it, and
\* a run that ended by cancellation emitted no progress 100.
C10_HundredOnlyOnCompletion ==
    /\ (fw.pc # "idle" /\ fw.finished > 0)
         => \E i \in DOMAIN fw.progress : fw.progress[i] = 100
    /\ (fw.pc = "done" /\ fw.exit = "cancelled")
         => \A i \in DOMAIN fw.progress : fw.progress[i] # 100

\* Some progress value was emitted twice in the run.
HasDuplicate(seq) ==
    \E i, j \in DOMAIN seq : i < j /\ seq[i] = seq[j]

\* ---- C11
\* C11: no progress value is emitted twice in a run, and a completed run over
\* 8000 frames (two whole chunks) emits exactly 50, 100.
C11_ProgressDeduplicated ==
    /\ fw.pc # "idle" => ~HasDuplicate(fw.progress)
    /\ (fw.pc = "done" /\ fw.exit = "completed"
           /\ fw.total = 2 * CHUNK_FRAMES)
         => fw.progress = <<50, 100>>

\* ---- C12
\* C12: a run in which cancel() came after chunk k was processed and before
\* the loop went on to chunk k+1 emits no finished_signal and no progress 100,
\* reads no further chunk, and its temporary file is removed (unless
\* os.remove failed).
C12_CancelBetweenChunks ==
    (fw.pc = "done" /\ fw.cancelAt = "loop" /\ fw.cancelChunks > 0) =>
        /\ fw.finished = 0
        /\ \A i \in DOMAIN fw.progress : fw.progress[i] # 100
        /\ fw.chunks = fw.cancelChunks
        /\ fw.tempExists => fw.removeFail

\* ---- C13
\* C13: once cancel() has been called, the run emits no finished_signal.
C13_NoFinishAfterCancel ==
    [][ (fw.pc # "idle" /\ fw.cancelled) => fw'.finished = fw.finished ]_vars

\* ---- C14
\* C14: at most one AcceptWaveform call is begun after cancel() set the flag.
C14_AtMostOneChunkAfterCancel ==
    fw.pc # "idle" => fw.acceptsAfter <= 1

\* cancel() came while a chunk was in flight: that chunk was fed to the
\* recognizer, another one was left unread, and the run ended cancelled.
C14_Witness ==
    /\ fw.pc = "done"
    /\ fw.exit = "cancelled"
    /\ fw.cancelAt \in {"read_frames", "accept"}
    /\ fw.acceptsAfter = 1
    /\ fw.framesRead < fw.total

C16_HandlePerOpenedSource ==
    mx.op = "open" =>
        /\ mx.devOk # {} => ~mx.raised
        /\ Len(mx.streams) = Cardinality(mx.devOk)
        /\ \A k \in DOMAIN mx.streams :
            /\ mx.streams[k].src \in mx.devOk
            /\ mx.sources[mx.streams[k].src].enabled
            /\ mx.streams[k].gain = mx.sources[mx.streams[k].src].gain
            /\ k > 1 => mx.streams[k - 1].src < mx.streams[k].src
        /\ (/\ Len(mx.sources) = 3
            /\ Enabled(mx.sources) = {1, 2}
            /\ mx.devOk = {1, 2}) => Len(mx.streams) = 2

\* A (gain 1.0) and B (gain 0.5) enabled, C disabled: two handles.
C16_Witness ==
    /\ mx.op = "open"
    /\ Len(mx.sources) = 3
    /\ Enabled(mx.sources) = {1, 2}
    /\ mx.sources[1].gain = Unity
    /\ mx.sources[2].gain = Half
    /\ mx.devOk = {1, 2}
    /\ Len(mx.streams) = 2
    /\ ~mx.raised

\* ---- C17
\* C17 as stated: every handle in the set was appended by the most recent
\* open_streams call, and every handle an earlier call appended has been
\* closed.
C17_EarlierHandlesClosed ==
    mx.op # "idle" =>
        /\ \A i \in DOMAIN mx.streams :
            mx.streams[i].gen = mx.calls /\ mx.streams[i] \in mx.opened
        /\ \A h \in mx.opened : h.gen < mx.calls => h \in mx.closed

\* C17 as amended: every handle in the set was appended by the most recent
\* open_streams call, and every handle an earlier call appended has left the
\* set through close_streams: it has been closed, or stopping or closing it
\* raised an OSError that close_streams swallowed.
C17_EarlierHandlesReleased ==
    mx.op # "idle" =>
        /\ \A i \in DOMAIN mx.streams :
            mx.streams[i].gen = mx.calls /\ mx.streams[i] \in mx.opened
        /\ \A h \in mx.opened :
            h.gen < mx.calls =>
                /\ h \in mx.closed \cup mx.failed
                /\ \A i \in DOMAIN mx.streams : mx.streams[i] # h
        /\ mx.closed \cap mx.failed = {}

\* The second open_streams replaced two handles of the first, one of which
\* could not be closed.
C17_Witness ==
    /\ mx.op = "open"
    /\ mx.calls = 2
    /\ mx.streams # << >>
    /\ \E h \in mx.failed : h.gen = 1
    /\ \E h \in mx.closed : h.gen = 1

\* ---- C18
\* C18: a close_streams call passes every handle of the set through its
\* stop-and-close, whatever OSError an earlier handle raised, does not raise,
\* and returns with the set empty; on an empty set it changes nothing.
C18_CloseStreamsBestEffort ==
    [][ (mx.op # "idle" /\ mx'.op = "close") =>
          /\ ~mx'.raised
          /\ mx'.streams = << >>
          /\ \A i \in DOMAIN mx.streams :
               mx.streams[i] \in mx'.closed \cup mx'.failed
          /\ mx.streams = << >> =>
               /\ mx'.closed = mx.closed
               /\ mx'.failed = mx.failed
               /\ mx'.opened = mx.opened
               /\ mx'.pa = mx.pa ]_vars

\* close_streams on two handles: the first one's stop or close raised, the
\* second was closed all the same.
C18_Witness ==
    /\ mx.op = "close"
    /\ Len(mx.before) >= 2
    /\ mx.before[1] \in mx.failed
    /\ mx.before[2] \in mx.closed
    /\ mx.streams = << >>
    /\ ~mx.raised

\* ---- the mixing formulas of C19 and C20
\* n/d rounded to the nearest integer, a tie going to the even one.
RoundFrac(n, d) ==
    LET q == n \div d
        r == n - q * d
    IN IF 2 * r < d THEN q
       ELSE IF 2 * r > d THEN q + 1
       ELSE IF q % 2 = 0 THEN q ELSE q + 1

\* The exact sum, as a fraction, of sample * gain over the streams that
\* delivered a sample.
RECURSIVE ExactSum(_, _, _, _)
ExactSum(handles, ins, live, k) ==
    IF k = 0 THEN [n |-> 0, d |-> 1]
    ELSE LET rest == ExactSum(handles, ins, live, k - 1)
             g == handles[k].gain
         IN IF k \in live
              THEN [n |-> rest.n * g.d + ins[k] * g.n * rest.d,
                    d |-> rest.d * g.d]
              ELSE rest

\* The sum of round(sample * gain) over the streams that delivered a sample.
RECURSIVE RoundedSum(_, _, _, _)
RoundedSum(handles, ins, live, k) ==
    IF k = 0 THEN 0
    ELSE RoundedSum(handles, ins, live, k - 1)
           + (IF k \in live
                THEN RoundFrac(ins[k] * handles[k].gain.n, handles[k].gain.d)
                ELSE 0)

\* ---- C19
\* C19: the mixed sample is clamp16(round(sum of sample * gain)), the sum
\* exact and rounded once.
C19_RoundOnceAfterSum ==
    mx.op = "read" =>
        LET e == ExactSum(mx.streams, mx.mixIn, mx.mixLive, Len(mx.streams))
        IN mx.mixOut = << Clamp16(RoundFrac(e.n, e.d)) >>

\* ---- C20
\* C20: the mixed sample is clamp16 of the sum of round(sample * gain) per
\* source; with one source and no clamping it is round(sample * gain).
C20_RoundPerSource ==
    mx.op = "read" =>
        mx.mixOut = << Clamp16(RoundedSum(mx.streams, mx.mixIn, mx.mixLive,
                                          Len(mx.streams))) >>

\* ---- C21
\* C21: the mixed sample lies in -32768..32767: a sum of 32767 or more gives
\* 32767, a sum of -32768 or less gives -32768, a sum inside the range is
\* output unchanged.
C21_MixedSampleClamped ==
    mx.op = "read" =>
        LET sum == MixSum(mx.before, mx.mixIn, mx.mixLive, Len(mx.before))
        IN /\ Len(mx.mixOut) = 1
           /\ mx.mixOut[1] \in -32768..32767
           /\ sum >= 32767 => mx.mixOut = << 32767 >>
           /\ sum <= -32768 => mx.mixOut = << -32768 >>
           /\ (sum > -32768 /\ sum < 32767) => mx.mixOut = << sum >>

\* Several handles summed past the positive end of the range.
C21_Witness ==
    /\ mx.op = "read"
    /\ Len(mx.before) >= 2
    /\ MixSum(mx.before, mx.mixIn, mx.mixLive, Len(mx.before)) > 32767
    /\ mx.mixOut = << 32767 >>

\* ---- C22
\* C22: with handles A (gain 1.0) and B (gain 0.5), a cycle in which A
\* delivers 0 and B delivers 32767 mixes to 16383.
C22_HalfGainExample ==
    (/\ mx.op = "read"
     /\ Len(mx.before) = 2
     /\ mx.before[1].gain = Unity
     /\ mx.before[2].gain = Half
     /\ mx.mixLive = {1, 2}
     /\ mx.mixIn = << 0, 32767 >>) => mx.mixOut = << 16383 >>

\* That cycle.
C22_Witness ==
    /\ mx.op = "read"
    /\ Len(mx.before) = 2
    /\ mx.before[1].gain = Unity
    /\ mx.before[2].gain = Half
    /\ mx.mixLive = {1, 2}
    /\ mx.mixIn = << 0, 32767 >>
    /\ mx.mixOut = << 16383 >>

\* ---- C23
\* C23: a handle whose read raised OSError, or that is inactive, adds nothing
\* to the frame (the frame is the one that handle delivering zeros would
\* give), the other handles are mixed as usual, read_and_mix does not raise,
\* and the handle set is the same after the call.
C23_FailedReadSkipped ==
    mx.op = "read" =>
        /\ ~mx.raised
        /\ mx.streams = mx.before
        /\ mx.mixOut = ReadAndMix(mx.before, mx.mixIn, DOMAIN mx.before)

\* One of two handles delivered nothing; the other's samples made the frame.
C23_Witness ==
    /\ mx.op = "read"
    /\ Len(mx.before) = 2
    /\ mx.mixLive = {2}
    /\ mx.mixIn[2] = 32767
    /\ mx.mixOut # << 0 >>
    /\ mx.streams = mx.before

\* ---- C24
\* C24: read_and_mix with no handle open returns empty bytes, does not raise,
\* reads no stream, and leaves the handle set and the PyAudio instance as they
\* were.
C24_ReadWithNoHandles ==
    [][ (mx.op # "idle" /\ mx'.op = "read" /\ mx.streams = << >>) =>
          /\ mx'.mixOut = << >>
          /\ ~mx'.raised
          /\ mx'.mixLive = {}
          /\ mx'.streams = << >>
          /\ mx'.pa = mx.pa
          /\ mx'.opened = mx.opened
          /\ mx'.closed = mx.closed
          /\ mx'.failed = mx.failed ]_vars

\* read_and_mix was called after close_streams had emptied the handle set.
C24_Witness ==
    /\ mx.op = "read"
    /\ mx.calls >= 1
    /\ mx.pa
    /\ mx.before = << >>
    /\ mx.mixOut = << >>
    /\ mx.closed # {}

\* A returned element that is populated holds a non-empty string with no
\* whitespace at either end.
Trimmed(e) ==
    e.some => /\ e.text # << >>
              /\ Head(e.text) \notin White
              /\ e.text[Len(e.text)] \notin White

\* ---- C25
\* C25: process_chunk never returns both a final and a partial text; a
\* returned text is non-empty and trimmed; a recognizer text that is empty or
\* all whitespace gives none; at an utterance boundary the partial is none,
\* otherwise the final is none.
C25_FinalPartialExclusive ==
    te.op = "chunk" =>
        /\ ~(te.out.final.some /\ te.out.partial.some)
        /\ Trimmed(te.out.final)
        /\ Trimmed(te.out.partial)
        /\ (\A i \in DOMAIN te.raw : te.raw[i] \in White)
             => (~te.out.final.some /\ ~te.out.partial.some)
        /\ te.boundary => ~te.out.partial.some
        /\ ~te.boundary => ~te.out.final.some

\* An utterance ended with text wrapped in whitespace: the trimmed text came
\* back as the final element.
C25_Witness ==
    /\ te.op = "chunk"
    /\ te.boundary
    /\ te.raw = << " ", "a", "\n" >>
    /\ te.out.final = SomeText(<< "a" >>)
    /\ ~te.out.partial.some

\* The edges of the session state: start, pause, resume, stop.
LegalEdges ==
    { <<"IDLE", "RUNNING">>, <<"RUNNING", "PAUSED">>, <<"PAUSED", "RUNNING">>,
      <<"RUNNING", "IDLE">>, <<"PAUSED", "IDLE">> }

OnlyErrors ==
    /\ fw.progress = << >>
    /\ fw.texts = 0
    /\ fw.finished = 0
    /\ fw.accepts = 0
    /\ fw.chunks = 0
    /\ \A i \in 1..Len(fw.log) : fw.log[i].kind = "error"

\* C27: a run that found no ffmpeg ends with one error event carrying the
\* installation hint and created no temporary file; a run whose ffmpeg exited
\* non-zero ends with one error event carrying the first 500 characters of
\* stderr at most; neither emits text, progress or completion nor feeds a chunk
\* to the recognizer.
C27_ConversionFailures ==
    /\ (fw.pc = "done" /\ fw.exit = "no_ffmpeg") =>
         /\ fw.errors = 1
         /\ fw.errMsg = "install_hint"
         /\ ~fw.created
         /\ OnlyErrors
    /\ (fw.pc = "done" /\ fw.exit = "convert_failed") =>
         /\ fw.errors = 1
         /\ fw.errMsg = "conversion_failed"
         /\ fw.excerpt <= 500
         /\ fw.excerpt <= fw.stderrLen
         /\ fw.excerpt = 500 \/ fw.excerpt = fw.stderrLen
         /\ OnlyErrors

\* ffmpeg failed after writing more than 500 characters, and the run returned.
C27_Witness ==
    /\ fw.pc = "done"
    /\ fw.exit = "convert_failed"
    /\ fw.stderrLen > 500
    /\ fw.errors = 1

\* ---- C28
\* C28: a run whose audio reports zero frames emits exactly one error event,
\* the empty-audio one, emits no progress, text or completion, feeds nothing to
\* the recognizer, and its temporary file is gone unless os.remove failed.
C28_EmptyAudio ==
    (fw.pc = "done" /\ fw.waveOpened /\ fw.total = 0) =>
        /\ fw.errors = 1
        /\ fw.errMsg = "empty_audio"
        /\ OnlyErrors
        /\ Len(fw.log) = 1
        /\ fw.tempExists => fw.removeFail

\* A converted file of zero frames was opened, the run returned and the
\* temporary file is removed.
C28_Witness ==
    /\ fw.pc = "done"
    /\ fw.waveOpened
    /\ fw.total = 0
    /\ fw.created
    /\ ~fw.tempExists

\* ---- C29
\* Positions of the log holding an entry of the given kind.
At(kind) == {i \in 1..Len(fw.log) : fw.log[i].kind = kind}

\* C29: in the run's log, the text of chunk k comes after the read of chunk k,
\* before the progress event of chunk k and before the read of chunk k+1; the
\* flush text comes after every chunk's read, text and progress and before the
\* final progress; the completion event is the last entry, directly after the
\* final progress.
C29_EventOrder ==
    /\ \A i \in At("text") :
         /\ \E j \in At("read") : j < i /\ fw.log[j].k = fw.log[i].k
         /\ \A j \in At("progress") : fw.log[j].k = fw.log[i].k => i < j
         /\ \A j \in At("read") : fw.log[j].k = fw.log[i].k + 1 => i < j
    /\ \A i \in At("flush_text") :
         /\ \A j \in At("read") \cup At("text") \cup At("progress") : j < i
         /\ \A j \in At("final_progress") : i < j
    /\ \A i \in At("finished") :
         /\ i = Len(fw.log)
         /\ i > 1
         /\ fw.log[i - 1].kind = "final_progress"
    /\ (fw.pc = "done" /\ fw.exit = "completed") => At("finished") # {}

\* A completed run whose log holds a chunk's text followed by that chunk's
\* progress event, and a flush text.
C29_Witness ==
    /\ fw.pc = "done"
    /\ fw.exit = "completed"
    /\ At("flush_text") # {}
    /\ \E i \in At("text") : \E j \in At("progress") :
         fw.log[i].k = fw.log[j].k

\* ---- C30
\* C30: the cancellation flag starts false and, once true, stays true through
\* every step of the run, a further cancel() included.
C30_CancelMonotonic ==
    /\ ~fw.cancelled
    /\ [][fw.cancelled => fw'.cancelled]_vars

\* cancel() has been called twice and the run has moved on since the first.
C30_Witness ==
    /\ fw.cancelled
    /\ fw.cancelCalls = 2
    /\ fw.cancelAt = "accept"
    /\ fw.pc = "progress"

\* ---- C31
\* C31: what list_input_devices returned holds exactly the devices of the table
\* whose maxInputChannels is above 0, in enumeration order, each with its
\* enumeration index; a call of it or of init creates a PyAudio instance only
\* when the engine has none, so that at most one is alive, and leaves the
\* handles alone.
C31_ListInputDevices ==
    mx.op \in {"init", "list"} =>
        /\ mx.op = "list" =>
             /\ \A j \in 1..Len(mx.result) :
                  LET i == mx.result[j].index + 1 IN
                    /\ i \in 1..Len(mx.table)
                    /\ mx.table[i].known
                    /\ mx.table[i].channels > 0
                    /\ mx.result[j].max_input_channels = mx.table[i].channels
             /\ \A j, k \in 1..Len(mx.result) :
                  j < k => mx.result[j].index < mx.result[k].index
             /\ \A i \in 1..Len(mx.table) :
                  (mx.table[i].known /\ mx.table[i].channels > 0) =>
                     \E j \in 1..Len(mx.result) : mx.result[j].index = i - 1
        /\ mx.pa
        /\ mx.created = mx.before.created + (IF mx.before.pa THEN 0 ELSE 1)
        /\ mx.created - mx.dropped = 1
        /\ mx.streams = mx.before.streams

\* list_input_devices was called on an engine holding a handle, on a machine
\* whose first device has no input channel and whose second has.
C31_Witness ==
    /\ mx.op = "list"
    /\ mx.before.pa
    /\ mx.streams # << >>
    /\ Len(mx.table) = 2
    /\ MaxInputChannels(mx.table[1]) = 0
    /\ Len(mx.result) = 1

\* ---- C32
\* C32: in a cycle of the capture loop, an empty read_and_mix is followed by no
\* process_chunk call and no signal; a frame is followed by one process_chunk
\* call (unless the process ends first), and what the cycle emits is text_ready when a final was returned,
\* else partial_ready when a partial was returned, else nothing.
C32_OneChunkOneEvent ==
    \A w \in Workers :
        LET c == hist[w].cyc IN
        /\ c.data \in {"unset", "empty", "reading"} =>
             c.chunks = 0 /\ c.emitted = {}
        /\ c.data = "frame" =>
             /\ c.chunks <= 1
             /\ wpc[w] \notin {"process", "killed"} => c.chunks = 1
             /\ Cardinality(c.emitted) <= 1
             /\ c.final => c.emitted = {"text"}
             /\ (~c.final /\ c.partial) => c.emitted = {"partial"}
             /\ (~c.final /\ ~c.partial) => c.emitted = {}

\* One worker has finished a cycle that emitted a final text, and is now in a
\* cycle whose read returned nothing.
C32_Witness ==
    \E w \in Workers :
        /\ hist[w].cyc.data = "empty"
        /\ wpc[w] = "loop"
        /\ \E i \in DOMAIN events : events[i] = [w |-> w, kind |-> "text"]

\* ---- C33
\* Worker w makes a read_and_mix call in this step.
ReadCall(w) == wpc[w] = "read" /\ wpc'[w] # "read"

\* C33: a worker resumed from the PAUSED state calls read_and_mix again unless
\* a pause or a stop follows or its run has ended; a worker stopped in the
\* PAUSED state makes no read_and_mix call from then on, and its run returns.
C33_ResumeReadsStopExits ==
    /\ \A w \in Workers :
         hist[w].resumeWait ~>
            (~hist[w].resumeWait \/ RunReturned(w) \/ ProcessGone(w))
    /\ [][\A w \in Workers : hist[w].stopPaused => ~ReadCall(w)]_vars
    /\ \A w \in Workers :
         hist[w].stopPaused ~> (RunReturned(w) \/ ProcessGone(w))

\* ---- C34
\* C34: start_session hands every worker a recognizer that has received
\* nothing (a new engine, or reset()), and no worker's chunk goes to a
\* recognizer that has received chunks of an earlier session's worker.
C34_NoCrossSessionBleed ==
    /\ [][nWorkers' # nWorkers => recFed' = {}]_vars
    /\ [](\A w \in Workers : ~hist[w].bleed)

\* ---- C35
\* C35: the progress value emitted after a chunk is the whole percentage of
\* the frames read so far, min(100, floor(100 * read / total)), for totals
\* that are multiples of the chunk size and for totals with a short last chunk.
C35_ProgressIsExactPercentage ==
    (fw.pc = "pct" /\ fw.emitted) =>
        fw.pct = Min(100, (100 * fw.framesRead) \div fw.total)

\* ---- C36
\* C36: when stop_session flushes the autosave buffer for the last time and
\* closes the file of a worker's session, every text_ready the worker emits,
\* the one of its final_result flush included, has been emitted and delivered
\* to _on_final_text.
C36_TextsSavedBeforeClose ==
    \A w \in Workers : ~hist[w].late

\* ---- C37
\* Worker w is inside the body of its capture loop (run, lines 71-84).
InLoopBody(w) == wpc[w] \in {"chk_paused", "read", "reading", "process"}

\* C37: at most one capture loop executes at a time: no worker of a later
\* session is inside its loop while the loop of an earlier session's worker
\* is still executing.
C37_OneCaptureLoop ==
    \A v \in Workers : \A w \in Workers :
        (v < w /\ InLoopBody(v)) => ~InLoopBody(w)

\* ---- C38
\* C38: whenever the session state is IDLE and no handler is in progress, no
\* session file is open and the autosave timer is not running; a
\* start_session that does not reach RUNNING leaves neither behind.
C38_IdleHoldsNoFileNoTimer ==
    (uiState = "IDLE" /\ mainPc = "ready") => (~fileOpen /\ ~timerOn)

====
